---- MODULE Spec2Model ----
(***************************************************************************)
(* A model of src/fund/market_heat.py: the series fetchers                 *)
(* (fetch_stock_daily, fetch_daily_index), the valuation fetcher            *)
(* (fetch_index_valuation), the indicator and scoring functions            *)
(* (bollinger_bands, map_to_score, score_liquidity, score_valuation,       *)
(* score_technical) and the main run (analyze_and_report).                 *)
(*                                                                         *)
(* Conventions.                                                            *)
(*  - An optional value is a tuple of length 0 or 1: None is <<>> and a    *)
(*    present value x is <<x>>.                                            *)
(*  - A price series is the sequence of its closes; the date of a point is *)
(*    its position (the source indexes the frame by date, in provider      *)
(*    order).                                                              *)
(*  - Prices are positive integers; a cell that pd.to_numeric cannot       *)
(*    coerce is the value NonNumeric.                                      *)
(*  - Scores that the source computes in floating point are computed here  *)
(*    exactly: the band comparisons and the sub-scores as rationals, the   *)
(*    composite by an emulation of IEEE-754 double arithmetic.             *)
(***************************************************************************)
EXTENDS Integers, Sequences, FiniteSets, TLC

\* ---------------------------------------------------------------- values
None == <<>>
Some(x) == <<x>>
IsNone(o) == Len(o) = 0
Get(o) == o[1]

NonNumeric == 0 - 1

\* ----------------------------------------------------------- configuration
BOLL_WINDOW == 20
BOLL_N == 2

\* A symbol is the sequence of its parts: '300502.SZ' is <<"300502", ".SZ">>.
USER_HOLDINGS ==
  <<<<"300502", ".SZ">>, <<"300308", ".SZ">>, <<"603063", ".SH">>,
    <<"002463", ".SZ">>, <<"603606", ".SH">>, <<"002487", ".SZ">>,
    <<"300395", ".SZ">>>>

CSI500_CODE == <<"000905", ".SH">>

\* ------------------------------------------------------------------ bounds
MaxHoldings == 2
MaxRetry == 2
MaxTail == 2

\* ------------------------------------------------------- indicator engine
RECURSIVE SumSeq(_)
SumSeq(s) == IF Len(s) = 0 THEN 0 ELSE s[1] + SumSeq(Tail(s))

Squares(s) == [i \in 1..Len(s) |-> s[i] * s[i]]

\* The trailing window of `window` closes ending at position i.
Window(s, i, window) == SubSeq(s, i - window + 1, i)

\* bollinger_bands: one point per close. mid, upper and lower are NaN until
\* the trailing window is full (and for window = 1, whose sample deviation
\* is undefined); a defined point carries the window's sum and sum of
\* squares, from which mid = sum/window and sd^2 =
\* (window*sumsq - sum^2) / (window*(window-1)) follow exactly.
bollinger_bands(df_close, window, n) ==
  [i \in 1..Len(df_close) |->
     [close   |-> df_close[i],
      defined |-> i >= window /\ window >= 2,
      window  |-> window,
      n       |-> n,
      sum     |-> IF i >= window THEN SumSeq(Window(df_close, i, window)) ELSE 0,
      sumsq   |-> IF i >= window
                  THEN SumSeq(Squares(Window(df_close, i, window))) ELSE 0]]

\* window*(close - mid), and window^2*(window-1)*sd^2 / window
Dev(p) == p.window * p.close - p.sum
Spread2(p) == p.window * p.sumsq - p.sum * p.sum

\* close > upper = mid + n*sd, for a defined point
AboveUpper(p) ==
  /\ Dev(p) > 0
  /\ Dev(p) * Dev(p) * (p.window - 1) > p.n * p.n * p.window * Spread2(p)

\* close < lower = mid - n*sd, for a defined point
BelowLower(p) ==
  /\ Dev(p) < 0
  /\ Dev(p) * Dev(p) * (p.window - 1) > p.n * p.n * p.window * Spread2(p)

\* DataFrame.dropna(): the rows with every band value defined
RECURSIVE dropna(_)
dropna(bb) ==
  IF Len(bb) = 0 THEN <<>>
  ELSE IF bb[1].defined THEN <<bb[1]>> \o dropna(Tail(bb))
       ELSE dropna(Tail(bb))

\* DataFrame.tail(k)
tail(s, k) == IF Len(s) <= k THEN s ELSE SubSeq(s, Len(s) - k + 1, Len(s))

\* ------------------------------------------------------------ scoring
\* A rational is <<numerator, denominator>>, denominator > 0.
RatAdd(a, b) == <<a[1] * b[2] + b[1] * a[2], a[2] * b[2]>>

RECURSIVE RatSum(_)
RatSum(s) == IF Len(s) = 0 THEN <<0, 1>> ELSE RatAdd(s[1], RatSum(Tail(s)))

\* int(q / k) for q >= 0
RatFloorDiv(q, k) == q[1] \div (q[2] * k)

\* A value float() accepts is an integer here; NonNumeric is one it rejects.
map_to_score_unclamped(value, min_val, max_val) ==
  IF value = NonNumeric THEN None
  ELSE IF max_val = min_val THEN Some(<<50, 1>>)
  ELSE Some(<<(value - min_val) * 100, max_val - min_val>>)

map_to_score(value, min_val, max_val) ==
  IF value = NonNumeric THEN None
  ELSE IF max_val = min_val THEN Some(<<50, 1>>)
  ELSE LET num == (value - min_val) * 100
           den == max_val - min_val
       IN  IF num <= 0 THEN Some(<<0, 1>>)
           ELSE IF num >= 100 * den THEN Some(<<100, 1>>)
           ELSE Some(<<num, den>>)

\* macro_dict = [m2, social_financing], northbound_dict = [net_inflow_5d],
\* each field optional.
score_liquidity(macro_dict, northbound_dict) ==
  LET one(field, lo, hi) ==
        IF IsNone(field) THEN <<>>
        ELSE LET s == map_to_score(Get(field), lo, hi)
             IN  IF IsNone(s) THEN <<>> ELSE <<Get(s)>>
      scores == one(macro_dict.m2, 6, 14)
                \o one(macro_dict.social_financing, 8, 16)
                \o one(northbound_dict.net_inflow_5d, 0, 1000)
  IN  IF Len(scores) = 0 THEN 50
      ELSE RatFloorDiv(RatSum(scores), Len(scores))

\* Percentiles are in units of 1/10000 (the fetcher rounds to 4 decimals);
\* avg2 is the average in units of 1/20000.
score_valuation(val_dict) ==
  LET pe_pct == val_dict.pe_pctile
      pb_pct == val_dict.pb_pctile
  IN  IF IsNone(pe_pct) /\ IsNone(pb_pct) THEN 50
      ELSE LET pcts == pe_pct \o pb_pct
               avg2 == (SumSeq(pcts) * 2) \div Len(pcts)
           IN  IF avg2 < 10000 THEN 70 + ((10000 - avg2) * 3) \div 1000
               ELSE IF avg2 < 14000 THEN 50 + (14000 - avg2) \div 200
               ELSE IF avg2 >= 20000 THEN 0
               ELSE (20000 - avg2) \div 120

Numeric(s) == \A i \in 1..Len(s) : s[i] # NonNumeric

\* score_technical returns (score, bb); astype(float) raises on a cell that
\* is not a number.
score_technical(idx_close_df) ==
  IF IsNone(idx_close_df) \/ Len(Get(idx_close_df)) = 0
  THEN [raised |-> FALSE, score |-> 50, bb |-> None]
  ELSE IF ~Numeric(Get(idx_close_df))
  THEN [raised |-> TRUE, score |-> 0, bb |-> None]
  ELSE LET bb == bollinger_bands(Get(idx_close_df), BOLL_WINDOW, BOLL_N)
           last == tail(dropna(bb), 5)
       IN  IF /\ Len(last) >= 2
              /\ AboveUpper(last[Len(last)])
              /\ AboveUpper(last[Len(last) - 1])
           THEN [raised |-> FALSE, score |-> 20, bb |-> Some(bb)]
           ELSE [raised |-> FALSE, score |-> 60, bb |-> Some(bb)]

\* ------------------------------------------- IEEE-754 double arithmetic
\* The composite is a Python float expression. A double that is 0 or at
\* least 1/4 is a multiple of 2^-54; such a value x is held exactly as the
\* integer x * 2^54, written in three limbs <<a, b, c>> of 24 bits
\* (a * 2^48 + b * 2^24 + c). Every value of the composite expression is of
\* this kind: the weights lie in [1/4, 1/2) and the scores are integers.
Limb == 4096 * 4096

RECURSIVE Pow2(_)
Pow2(k) == IF k = 0 THEN 1 ELSE 2 * Pow2(k - 1)

RECURSIVE BitLen(_)
BitLen(k) == IF k = 0 THEN 0 ELSE 1 + BitLen(k \div 2)

FxNorm(a, b, c) ==
  LET b1 == b + c \div Limb
  IN  <<a + b1 \div Limb, b1 % Limb, c % Limb>>

FxAdd(x, y) == FxNorm(x[1] + y[1], x[2] + y[2], x[3] + y[3])

\* the exact product of a double and a small integer
FxMulInt(x, k) == FxNorm(x[1] * k, x[2] * k, x[3] * k)

\* Round to the 53 significant bits of a double, ties to even. The values
\* here are below 2^72 and at most 2^(53+23), so only the low limb is cut.
Round53(x) ==
  LET bits == IF x[1] > 0 THEN 48 + BitLen(x[1]) ELSE 0
      q == IF bits > 53 THEN bits - 53 ELSE 0
      p == Pow2(q)
      r == x[3] % p
      down == <<x[1], x[2], x[3] - r>>
      up == (2 * r > p) \/ (2 * r = p /\ (x[3] \div p) % 2 = 1)
  IN  IF up THEN FxAdd(down, <<0, 0, p>>) ELSE down

\* float * int, float + float, int(float) for these values
FMulInt(w, k) == Round53(FxMulInt(w, k))
FAdd(x, y) == Round53(FxAdd(x, y))
FTrunc(x) == x[1] \div 64

\* The doubles nearest 0.35 and 0.30, times 2^54:
\* 6305039478318694 and 5404319552844595.
WEIGHT_LIQUIDITY == <<22, 6710886, 6710886>>
WEIGHT_VALUATION == <<22, 6710886, 6710886>>
WEIGHT_TECHNICAL == <<19, 3355443, 3355443>>


\* composite = int(WEIGHT_LIQUIDITY * liq_score + WEIGHT_VALUATION *
\* val_score + WEIGHT_TECHNICAL * tech_score), evaluated left to right.
Composite(liq, valn, tech) ==
  FTrunc(FAdd(FAdd(FMulInt(WEIGHT_LIQUIDITY, liq),
                   FMulInt(WEIGHT_VALUATION, valn)),
              FMulInt(WEIGHT_TECHNICAL, tech)))

\* The classification line chosen from the composite.
Classification(c) ==
  IF c >= 75 THEN "overheated"
  ELSE IF c >= 55 THEN "elevated"
  ELSE "cool"

\* ---------------------------------------------------- portfolio analyzer
\* The verdict of one fetched holding: the band comment and the most recent
\* defined close (N/A when no band point is defined).
HoldingVerdict(sdf) ==
  LET bb_s == bollinger_bands(sdf, BOLL_WINDOW, BOLL_N)
      last == tail(dropna(bb_s), 3)
      n == Len(last)
      comment ==
        IF n >= 2 /\ AboveUpper(last[n]) THEN "overbought"
        ELSE IF n > 0 /\ BelowLower(last[n]) THEN "oversold"
        ELSE "neutral"
  IN  [comment |-> comment,
       last_close |-> IF n > 0 THEN Some(last[n].close) ELSE None]

\* ------------------------------------------------- macro/valuation fetcher
\* What the four endpoints of fetch_index_valuation answer when asked:
\*   kline: "raise" (requests fails), "bad" (status not 200 or no "data" in
\*          the text), "ok";
\*   quote: "raise" (requests or .json() fails), "nodata" (no "data" key, or
\*          an empty one), "data" with the fields f115 and f117, each
\*          missing (None) or a value; NonNumeric is one float() rejects;
\*   pe, pb: "raise", or "json" with an optional percentile; NonNumeric is
\*          one that cannot be divided.
\* PE and PB are in units of 0.01, which round(x, 2) keeps; a percentile is
\* a whole percent p, and round(p / 100, 4) is p * 100 in units of 1/10000.
AllAbsent == [pe_ttm |-> None, pb |-> None, pe_pctile |-> None, pb_pctile |-> None]

fetch_index_valuation(env) ==
  IF env.kline # "ok" THEN AllAbsent
  ELSE IF env.quote.kind # "data" THEN AllAbsent
  ELSE LET f115 == IF IsNone(env.quote.f115) THEN 0 ELSE Get(env.quote.f115)
           f117 == IF IsNone(env.quote.f117) THEN 0 ELSE Get(env.quote.f117)
       IN  IF f115 = NonNumeric \/ f117 = NonNumeric THEN AllAbsent
           ELSE LET inner_ok == env.pe.kind = "json" /\ env.pb.kind = "json"
                    pe_pct == IF inner_ok THEN env.pe.percentile ELSE None
                    pb_pct == IF inner_ok THEN env.pb.percentile ELSE None
                    truthy(o) == ~IsNone(o) /\ Get(o) # 0
                IN  IF \/ (truthy(pe_pct) /\ Get(pe_pct) = NonNumeric)
                       \/ (truthy(pb_pct) /\ Get(pb_pct) = NonNumeric)
                    THEN AllAbsent
                    ELSE [pe_ttm |-> IF f115 # 0 THEN Some(f115) ELSE None,
                          pb |-> IF f117 # 0 THEN Some(f117) ELSE None,
                          pe_pctile |-> IF truthy(pe_pct)
                                        THEN Some(Get(pe_pct) * 100) ELSE None,
                          pb_pctile |-> IF truthy(pb_pct)
                                        THEN Some(Get(pb_pct) * 100) ELSE None]

\* ---------------------------------------------------------- series fetcher
\* A symbol is the sequence of its parts, e.g. <<"000905", ".SH">> for
\* '000905.SH' and <<"sh", "000905">> for 'sh000905'; the string operations
\* of the source act on the parts.
lower(part) ==
  CASE part = ".SH" -> ".sh"
    [] part = ".SZ" -> ".sz"
    [] part = "SH" -> "sh"
    [] part = "SZ" -> "sz"
    [] OTHER -> part

\* str.replace(old, ''), for each part in `olds`
RECURSIVE remove(_, _)
remove(sym, olds) ==
  IF Len(sym) = 0 THEN <<>>
  ELSE IF sym[1] \in olds THEN remove(Tail(sym), olds)
       ELSE <<sym[1]>> \o remove(Tail(sym), olds)

\* str.strip()
RECURSIVE lstrip(_)
lstrip(sym) == IF Len(sym) > 0 /\ sym[1] = " " THEN lstrip(Tail(sym)) ELSE sym

RECURSIVE rstrip(_)
rstrip(sym) ==
  IF Len(sym) > 0 /\ sym[Len(sym)] = " "
  THEN rstrip(SubSeq(sym, 1, Len(sym) - 1)) ELSE sym

strip(sym) == rstrip(lstrip(sym))

_clean_index_symbol(code) ==
  LET c == remove(strip([i \in 1..Len(code) |-> lower(code[i])]), {".sh", ".sz"})
  IN  <<c, <<"sh">> \o c, <<"sz">> \o c>>

\* fetch_stock_daily's cleaning of the code (also applied by its caller)
clean_stock_code(stock_code) == remove(strip(stock_code), {".SZ", ".SH", ".sz", ".sh"})

\* Column names: "riqi" and "shoupan" stand for the provider's Chinese names
\* of the date and close columns.
rename(cols, old, new) == IF old \in cols THEN (cols \ {old}) \cup {new} ELSE cols

lower_col(c) ==
  CASE c = "Date" -> "date"
    [] c = "Close" -> "close"
    [] OTHER -> c

\* Lines 161-176 of fetch_stock_daily: the column names after the renames.
stock_columns(cols) ==
  IF "riqi" \in cols /\ "shoupan" \in cols
  THEN rename(rename(cols, "riqi", "date"), "shoupan", "close")
  ELSE IF "date" \in cols /\ "close" \in cols THEN cols
  ELSE IF "trade_date" \in cols /\ "close" \in cols
  THEN rename(cols, "trade_date", "date")
  ELSE LET lowered == {lower_col(c) : c \in cols}
           c1 == IF "close" \notin lowered /\ "shoupan" \in cols
                 THEN rename(cols, "shoupan", "close") ELSE cols
       IN  IF "date" \notin lowered
              /\ ("date" \in c1 \/ "riqi" \in c1 \/ "trade_date" \in c1)
           THEN IF "riqi" \in c1 THEN rename(c1, "riqi", "date")
                ELSE IF "trade_date" \in c1 THEN rename(c1, "trade_date", "date")
                ELSE c1
           ELSE c1

\* pd.to_numeric(errors='coerce') followed by dropna(subset=['close'])
RECURSIVE numeric_rows(_)
numeric_rows(rows) ==
  IF Len(rows) = 0 THEN <<>>
  ELSE IF rows[1] = NonNumeric THEN numeric_rows(Tail(rows))
       ELSE <<rows[1]>> \o numeric_rows(Tail(rows))

\* One attempt of fetch_stock_daily on the provider's answer (lines
\* 156-188): the series returned, or None with the exception the attempt
\* raises. An answer is "raise" (the call raises), "none" (it returns None)
\* or "df", a frame with its columns, its close cells and whether its dates
\* parse.
Raised(exc) == [value |-> None, exc |-> exc]

stock_attempt(answer) ==
  IF answer.kind = "raise" THEN Raised("provider error")
  ELSE IF answer.kind = "none" \/ Len(answer.rows) = 0 THEN Raised("empty answer")
  ELSE LET cols == stock_columns(answer.cols)
       IN  IF "date" \notin cols \/ "close" \notin cols THEN Raised("unknown columns")
           ELSE IF ~answer.dates_ok THEN Raised("unparsable date")
           ELSE LET kept == numeric_rows(answer.rows)
                IN  IF Len(kept) = 0 THEN Raised("no numeric close")
                    ELSE [value |-> Some(kept), exc |-> ""]

\* One candidate of fetch_daily_index on the answer of stock_zh_index_daily
\* (lines 89-107): the series returned, or None when the loop goes on. The
\* columns are those after reset_index(); the closes are returned as they
\* came.
index_attempt(answer) ==
  IF answer.kind # "df" THEN None
  ELSE IF Len(answer.rows) = 0 THEN None
  ELSE LET cols == IF "date" \notin answer.cols /\ "trade_date" \in answer.cols
                   THEN rename(answer.cols, "trade_date", "date")
                   ELSE answer.cols
       IN  IF "date" \notin cols THEN None
           ELSE IF ~answer.dates_ok THEN None
           ELSE IF "close" \notin cols THEN None
           ELSE Some(answer.rows)

\* The fallback of fetch_daily_index on the answer of index_zh_a_hist
\* (lines 113-124).
index_fallback(answer) ==
  IF answer.kind # "df" THEN None
  ELSE IF Len(answer.rows) = 0 THEN None
  ELSE LET cols == IF "riqi" \in answer.cols /\ "shoupan" \in answer.cols
                   THEN rename(rename(answer.cols, "riqi", "date"), "shoupan", "close")
                   ELSE answer.cols
       IN  IF "date" \notin cols THEN None
           ELSE IF ~answer.dates_ok THEN None
           ELSE IF "close" \notin cols THEN None
           ELSE Some(answer.rows)

\* The symbol the fallback asks for, whatever the code requested.
FallbackSymbol == <<"000905">>

\* ------------------------------------------------------------ input sets
Opt(S) == {None} \cup {Some(x) : x \in S}

Prices == {8, 10, 11, 13}

RECURSIVE SeqsUpTo(_, _)
SeqsUpTo(S, k) ==
  IF k = 0 THEN {<<>>}
  ELSE LET shorter == SeqsUpTo(S, k - 1)
       IN  shorter \cup {Append(t, x) : t \in {u \in shorter : Len(u) = k - 1}, x \in S}

Flat(k) == [i \in 1..k |-> 10]

\* Series that end a flat stretch with up to MaxTail arbitrary closes: no
\* close at all, fewer than BOLL_WINDOW closes, and one to MaxTail + 1 defined
\* band points, the last closes inside, above or below the bands.
PrefixLens == {0, BOLL_WINDOW - 1, BOLL_WINDOW}
RichSeries == {Flat(k) \o t : k \in PrefixLens, t \in SeqsUpTo(Prices, MaxTail)}

M2Values == {3, 13, 20}
SfValues == {12}
NbValues == {NonNumeric, 0 - 200, 480, 800, 1500}
PePctValues == {0, 1300, 6000, 9000, 10000}
PbPctValues == {6000, 10000}

ScoreInputs ==
  [m2 : Opt(M2Values), social_financing : Opt(SfValues),
   net_inflow_5d : Opt(NbValues),
   pe_pctile : Opt(PePctValues), pb_pctile : Opt(PbPctValues),
   series : Opt(RichSeries)]

QuoteAnswers ==
  {[kind |-> "raise", f115 |-> None, f117 |-> None],
   [kind |-> "nodata", f115 |-> None, f117 |-> None]}
  \cup [kind : {"data"}, f115 : Opt({NonNumeric, 0, 2345}), f117 : Opt({0, 187})]

PctAnswers ==
  {[kind |-> "raise", percentile |-> None]}
  \cup [kind : {"json"}, percentile : Opt({NonNumeric, 0, 13, 60})]

ValuationEnvs ==
  [kline : {"raise", "bad", "ok"}, quote : QuoteAnswers,
   pe : PctAnswers, pb : PctAnswers]

\* What stock_zh_a_hist may answer to one call.
StockColumnSets ==
  {{"riqi", "shoupan"}, {"date", "close"}, {"trade_date", "close"},
   {"riqi", "close"}, {"date", "shoupan"}, {"trade_date", "shoupan"},
   {"Date", "Close"}, {"date", "open"}}

\* Closes of a holding: none, only unparsable ones, a short history, and
\* histories with one or two defined band points.
StockRows ==
  {<<>>, <<NonNumeric>>, <<NonNumeric, 10>>,
   Flat(BOLL_WINDOW - 1) \o <<11>>,
   Flat(BOLL_WINDOW - 1) \o <<8>>,
   Flat(BOLL_WINDOW - 1) \o <<11, 13>>,
   Flat(BOLL_WINDOW - 1) \o <<NonNumeric, 8, 8>>,
   Flat(BOLL_WINDOW)}

StockAnswers ==
  {[kind |-> k, cols |-> {}, rows |-> <<>>, dates_ok |-> TRUE] : k \in {"raise", "none"}}
  \cup [kind : {"df"}, cols : StockColumnSets,
        rows : {<<>>, <<NonNumeric>>, <<NonNumeric, 10>>}, dates_ok : {TRUE}]
  \cup [kind : {"df"}, cols : {{"riqi", "shoupan"}, {"date", "close"}},
        rows : StockRows, dates_ok : BOOLEAN]

\* What stock_zh_index_daily and index_zh_a_hist may answer to one call.
IndexRows ==
  {<<>>, <<NonNumeric, 10>>,
   Flat(BOLL_WINDOW - 1),
   Flat(BOLL_WINDOW - 1) \o <<11, 13>>,
   Flat(BOLL_WINDOW - 1) \o <<11, 10>>}

IndexAnswers ==
  {[kind |-> k, cols |-> {}, rows |-> <<>>, dates_ok |-> TRUE] : k \in {"raise", "none"}}
  \cup [kind : {"df"},
        cols : {{"date", "close"}, {"trade_date", "close"}, {"date", "open"},
                {"index", "close"}, {"riqi", "shoupan"}},
        rows : IndexRows, dates_ok : BOOLEAN]

IndexCodes ==
  {<<"000905", ".SH">>, <<"000905">>, <<"sh", "000905">>,
   <<" ", "000300", ".SH">>, <<"399001", ".sz">>}

\* What the run's macro and valuation fetches may come to.
RunM2Values == {13}
RunNbValues == {480}

RunValuationEnvs ==
  {env \in ValuationEnvs :
     /\ env.kline \in {"ok", "raise"}
     /\ env.quote = [kind |-> "data", f115 |-> Some(2345), f117 |-> Some(187)]
     /\ env.pe \in {[kind |-> "raise", percentile |-> None],
                    [kind |-> "json", percentile |-> Some(13)]}
     /\ env.pb \in {[kind |-> "raise", percentile |-> None],
                    [kind |-> "json", percentile |-> Some(60)]}}

\* ------------------------------------------------------------------ state
VARIABLES
  akOk,        \* whether `import akshare` succeeds in this process
  holdings,    \* USER_HOLDINGS
  pc,          \* position in the function running
  report,      \* report_lines of analyze_and_report
  saved,       \* the report files written
  liq_score, val_score, tech_score, composite,
  hidx,        \* position of the holdings loop
  sdf,         \* the series fetched for the current holding
  fs,          \* frame of fetch_stock_daily
  fi,          \* frame of fetch_daily_index
  input,       \* arguments of the function applied on its own
  result       \* its return value

vars == <<akOk, holdings, pc, report, saved, liq_score, val_score, tech_score,
          composite, hidx, sdf, fs, fi, input, result>>

runVars == <<report, saved, liq_score, val_score, tech_score, composite, hidx, sdf>>

NoFrame == [active |-> FALSE]

RunIdle ==
  /\ report = <<>> /\ saved = <<>>
  /\ liq_score = None /\ val_score = None /\ tech_score = None /\ composite = None
  /\ hidx = 0 /\ sdf = None

\* ------------------------------------------- the scoring engine on its own
\* Every scoring function applied to one drawn input: the three sub-scores,
\* the composite and classification analyze_and_report derives from them,
\* and the verdict of the series taken as a fetched holding (a fetched
\* series is non-empty).
InitScore ==
  /\ akOk = TRUE /\ holdings = <<>>
  /\ pc = "score"
  /\ RunIdle
  /\ fs = NoFrame /\ fi = NoFrame
  /\ input \in ScoreInputs
  /\ result = None

EvalScores ==
  /\ pc = "score"
  /\ LET liq == score_liquidity(
                  [m2 |-> input.m2, social_financing |-> input.social_financing],
                  [net_inflow_5d |-> input.net_inflow_5d])
         valn == score_valuation(
                   [pe_pctile |-> input.pe_pctile, pb_pctile |-> input.pb_pctile])
         tech == score_technical(input.series)
         comp == Composite(liq, valn, tech.score)
     IN  result' = Some([liq |-> liq, val |-> valn, tech |-> tech.score,
                         raised |-> tech.raised,
                         composite |-> comp, tier |-> Classification(comp),
                         verdict |-> IF IsNone(input.series) \/ Len(Get(input.series)) = 0
                                     THEN None
                                     ELSE Some(HoldingVerdict(Get(input.series)))])
  /\ pc' = "scored"
  /\ UNCHANGED <<akOk, holdings, runVars, fs, fi, input>>

SpecScore == InitScore /\ [][EvalScores]_vars

\* ------------------------------------ the valuation fetcher on its own
InitValuation ==
  /\ akOk = TRUE /\ holdings = <<>>
  /\ pc = "valuation"
  /\ RunIdle
  /\ fs = NoFrame /\ fi = NoFrame
  /\ input \in ValuationEnvs
  /\ result = None

EvalValuation ==
  /\ pc = "valuation"
  /\ result' = Some(fetch_index_valuation(input))
  /\ pc' = "valued"
  /\ UNCHANGED <<akOk, holdings, runVars, fs, fi, input>>

SpecValuation == InitValuation /\ [][EvalValuation]_vars

\* ------------------------------------------------------ fetch_stock_daily
\* The frame of a call: its arguments, the loop variable `attempt`, the
\* events so far ("pre_delay" for the sleep of line 153, "call", then "ok"
\* or "fail" for what the attempt came to, "retry_delay" for the sleep of
\* line 192), the last exception caught, how the call ended ("raised", "returned") with the value
\* returned, and the position of the caller to go back to.
StockFrame(stock_code, retry, ret) ==
  [active |-> TRUE, stock_code |-> stock_code, code |-> clean_stock_code(stock_code),
   retry |-> retry, attempt |-> 0, events |-> <<>>, last_exc |-> "",
   outcome |-> "running", value |-> None, ret |-> ret]

\* line 138: safe_import_akshare re-raises when akshare cannot be imported
FsEnter ==
  /\ pc = "fs_enter"
  /\ IF akOk
     THEN /\ fs' = [fs EXCEPT !.attempt = 1]
          /\ pc' = "fs_loop"
     ELSE /\ fs' = [fs EXCEPT !.outcome = "raised"]
          /\ pc' = fs.ret
  /\ UNCHANGED <<akOk, holdings, runVars, fi, input, result>>

\* lines 151-153: the next attempt starts with a delay
FsSleep ==
  /\ pc = "fs_loop"
  /\ fs.attempt <= fs.retry
  /\ fs' = [fs EXCEPT !.events = Append(@, "pre_delay")]
  /\ pc' = "fs_call"
  /\ UNCHANGED <<akOk, holdings, runVars, fi, input, result>>

\* lines 156-191: the provider call and what the attempt makes of its answer
FsCall ==
  /\ pc = "fs_call"
  /\ \E answer \in StockAnswers :
       LET got == stock_attempt(answer)
       IN  IF IsNone(got.value)
           THEN /\ fs' = [fs EXCEPT !.events = @ \o <<"call", "fail">>,
                                    !.last_exc = got.exc]
                /\ pc' = "fs_failed"
           ELSE /\ fs' = [fs EXCEPT !.events = @ \o <<"call", "ok">>,
                                    !.outcome = "returned", !.value = got.value]
                /\ pc' = fs.ret
  /\ UNCHANGED <<akOk, holdings, runVars, fi, input, result>>

\* FsBackoff without its sleep
FsBackoffNoDelay ==
  /\ pc = "fs_failed"
  /\ fs' = [fs EXCEPT !.attempt = @ + 1]
  /\ pc' = "fs_loop"
  /\ UNCHANGED <<akOk, holdings, runVars, fi, input, result>>

\* line 192: the delay after a failed attempt
FsBackoff ==
  /\ pc = "fs_failed"
  /\ fs' = [fs EXCEPT !.events = Append(@, "retry_delay"), !.attempt = @ + 1]
  /\ pc' = "fs_loop"
  /\ UNCHANGED <<akOk, holdings, runVars, fi, input, result>>

\* lines 194-195: every attempt failed
FsExhausted ==
  /\ pc = "fs_loop"
  /\ fs.attempt > fs.retry
  /\ fs' = [fs EXCEPT !.outcome = "returned", !.value = None]
  /\ pc' = fs.ret
  /\ UNCHANGED <<akOk, holdings, runVars, fi, input, result>>

FetchStockDaily == FsEnter \/ FsSleep \/ FsCall \/ FsBackoff \/ FsExhausted

InitStock ==
  /\ akOk \in BOOLEAN /\ holdings = <<>>
  /\ pc = "fs_enter"
  /\ RunIdle
  /\ \E stock_code \in {<<"300502", ".SZ">>, <<"603063">>}, retry \in 0..MaxRetry :
       fs = StockFrame(stock_code, retry, "fs_done")
  /\ fi = NoFrame
  /\ input = None /\ result = None

SpecStock == InitStock /\ [][FetchStockDaily]_vars

\* ------------------------------------------------------ fetch_daily_index
\* The frame of a call: the candidates, the position i in them, the provider
\* calls so far (endpoint, symbol, and whether the answer was returned as
\* the series), how the call ended and the value returned.
IndexFrame(code, ret) ==
  [active |-> TRUE, code |-> code, candidates |-> <<>>, i |-> 0, calls |-> <<>>,
   outcome |-> "running", value |-> None, ret |-> ret]

\* lines 81-85
FiEnter ==
  /\ pc = "fi_enter"
  /\ IF akOk
     THEN /\ fi' = [fi EXCEPT !.candidates = _clean_index_symbol(fi.code), !.i = 1]
          /\ pc' = "fi_loop"
     ELSE /\ fi' = [fi EXCEPT !.outcome = "raised"]
          /\ pc' = fi.ret
  /\ UNCHANGED <<akOk, holdings, runVars, fs, input, result>>

\* lines 86-109: one candidate
FiTry ==
  /\ pc = "fi_loop"
  /\ fi.i <= Len(fi.candidates)
  /\ \E answer \in IndexAnswers :
       LET got == index_attempt(answer)
           call == [endpoint |-> "stock_zh_index_daily", symbol |-> fi.candidates[fi.i],
                    taken |-> ~IsNone(got)]
       IN  IF IsNone(got)
           THEN /\ fi' = [fi EXCEPT !.calls = Append(@, call), !.i = @ + 1]
                /\ pc' = "fi_loop"
           ELSE /\ fi' = [fi EXCEPT !.calls = Append(@, call),
                                    !.outcome = "returned", !.value = Some(Get(got))]
                /\ pc' = fi.ret
  /\ UNCHANGED <<akOk, holdings, runVars, fs, input, result>>

\* lines 111-128: the fallback endpoint, then None
FiFallback ==
  /\ pc = "fi_loop"
  /\ fi.i > Len(fi.candidates)
  /\ \E answer \in IndexAnswers :
       LET got == index_fallback(answer)
           call == [endpoint |-> "index_zh_a_hist", symbol |-> FallbackSymbol,
                    taken |-> ~IsNone(got)]
       IN  fi' = [fi EXCEPT !.calls = Append(@, call), !.outcome = "returned",
                            !.value = IF IsNone(got) THEN None ELSE Some(Get(got))]
  /\ pc' = fi.ret
  /\ UNCHANGED <<akOk, holdings, runVars, fs, input, result>>

FetchDailyIndex == FiEnter \/ FiTry \/ FiFallback

InitIndex ==
  /\ akOk \in BOOLEAN /\ holdings = <<>>
  /\ pc = "fi_enter"
  /\ RunIdle
  /\ fs = NoFrame
  /\ \E code \in IndexCodes : fi = IndexFrame(code, "fi_done")
  /\ input = None /\ result = None

SpecIndex == InitIndex /\ [][FetchDailyIndex]_vars

\* ----------------------------------------------------- analyze_and_report
\* A line of the report: its kind, the holding it is about (or <<>>), the
\* number it shows (or None) and its wording.
Line(kind, code, value, text) ==
  [kind |-> kind, code |-> code, value |-> value, text |-> text]

\* lines 327-335: the import is tried, the report starts with the timestamp
RunStart ==
  /\ pc = "start"
  /\ report' = <<Line("timestamp", <<>>, None, "")>>
  /\ pc' = "macro"
  /\ UNCHANGED <<akOk, holdings, saved, liq_score, val_score, tech_score, composite,
                 hidx, sdf, fs, fi, input, result>>

\* lines 338-387: the macro fetch (its keyword search over the provider's
\* tables ends with money-supply growth and the 5-day net inflow each found
\* or not; social financing is never fetched), then the liquidity line
RunLiquidity ==
  /\ pc = "macro"
  /\ \E m2 \in Opt(RunM2Values), nb \in Opt(RunNbValues) :
       LET macro == [m2 |-> IF akOk THEN m2 ELSE None, social_financing |-> None]
           north == [net_inflow_5d |-> IF akOk THEN nb ELSE None]
           liq == score_liquidity(macro, north)
       IN  /\ liq_score' = Some(liq)
           /\ report' = Append(report, Line("liquidity", <<>>, Some(liq), ""))
  /\ pc' = "valuation"
  /\ UNCHANGED <<akOk, holdings, saved, val_score, tech_score, composite,
                 hidx, sdf, fs, fi, input, result>>

\* lines 391-398: the valuation line, then the call of fetch_daily_index
RunValuation ==
  /\ pc = "valuation"
  /\ \E env \in RunValuationEnvs :
       LET valn == score_valuation(fetch_index_valuation(env))
       IN  /\ val_score' = Some(valn)
           /\ report' = Append(report, Line("valuation", <<>>, Some(valn), ""))
  /\ fi' = IndexFrame(CSI500_CODE, "index_ret")
  /\ pc' = "fi_enter"
  /\ UNCHANGED <<akOk, holdings, saved, liq_score, tech_score, composite,
                 hidx, sdf, fs, input, result>>

\* lines 398-403 and 414-416: fetch_daily_index is back. If it or
\* score_technical raised, the handler writes the failure line and sets the
\* score to 50; otherwise the technical line is written and, with a series
\* and bands, the chart is drawn next.
RunTechnical ==
  /\ pc = "index_ret"
  /\ LET tech == score_technical(fi.value)
     IN  IF fi.outcome = "raised" \/ tech.raised
         THEN /\ report' = Append(report, Line("index_failed", <<>>, None, ""))
              /\ tech_score' = Some(50)
              /\ pc' = "composite"
         ELSE /\ report' = Append(report, Line("technical", <<>>, Some(tech.score), ""))
              /\ tech_score' = Some(tech.score)
              /\ pc' = IF ~IsNone(fi.value) /\ ~IsNone(tech.bb)
                       THEN "index_chart" ELSE "composite"
  /\ fi' = NoFrame
  /\ UNCHANGED <<akOk, holdings, saved, liq_score, val_score, composite,
                 hidx, sdf, fs, input, result>>

\* lines 404-413: the chart is saved and a notice written
RunIndexChartSaved ==
  /\ pc = "index_chart"
  /\ report' = Append(report, Line("chart_saved", <<>>, None, ""))
  /\ pc' = "composite"
  /\ UNCHANGED <<akOk, holdings, saved, liq_score, val_score, tech_score, composite,
                 hidx, sdf, fs, fi, input, result>>

\* lines 404-416: the charting library raises (it is missing, or the file
\* cannot be written): the handler of the whole block runs
RunIndexChartRaises ==
  /\ pc = "index_chart"
  /\ report' = Append(report, Line("index_failed", <<>>, None, ""))
  /\ tech_score' = Some(50)
  /\ pc' = "composite"
  /\ UNCHANGED <<akOk, holdings, saved, liq_score, val_score, composite,
                 hidx, sdf, fs, fi, input, result>>

\* RunComposite with the classification written before the composite
RunCompositeSwapped ==
  /\ pc = "composite"
  /\ LET comp == Composite(Get(liq_score), Get(val_score), Get(tech_score))
     IN  /\ composite' = Some(comp)
         /\ report' = report
              \o <<Line("classification", <<>>, None, Classification(comp)),
                   Line("composite", <<>>, Some(comp), "")>>
              \o (IF Len(holdings) > 0
                  THEN <<Line("holdings_header", <<>>, None, "")>> ELSE <<>>)
  /\ hidx' = 1
  /\ pc' = IF Len(holdings) > 0 THEN "holding" ELSE "save"
  /\ UNCHANGED <<akOk, holdings, saved, liq_score, val_score, tech_score,
                 sdf, fs, fi, input, result>>

\* lines 419-431: the composite line, the classification line and, with
\* holdings, the header of their section
RunComposite ==
  /\ pc = "composite"
  /\ LET comp == Composite(Get(liq_score), Get(val_score), Get(tech_score))
     IN  /\ composite' = Some(comp)
         /\ report' = report
              \o <<Line("composite", <<>>, Some(comp), ""),
                   Line("classification", <<>>, None, Classification(comp))>>
              \o (IF Len(holdings) > 0
                  THEN <<Line("holdings_header", <<>>, None, "")>> ELSE <<>>)
  /\ hidx' = 1
  /\ pc' = IF Len(holdings) > 0 THEN "holding" ELSE "save"
  /\ UNCHANGED <<akOk, holdings, saved, liq_score, val_score, tech_score,
                 sdf, fs, fi, input, result>>

\* lines 432-436: the next holding: its code is cleaned and fetched
RunHolding ==
  /\ pc = "holding"
  /\ hidx <= Len(holdings)
  /\ fs' = StockFrame(remove(holdings[hidx], {".SZ", ".SH", ".sz", ".sh"}), 2, "holding_ret")
  /\ pc' = "fs_enter"
  /\ UNCHANGED <<akOk, holdings, report, saved, liq_score, val_score, tech_score,
                 composite, hidx, sdf, fi, input, result>>

\* lines 436-451 and 463-464: fetch_stock_daily is back: the failure line if
\* it raised, the skipped line for None, otherwise the verdict line
RunHoldingFetched ==
  /\ pc = "holding_ret"
  /\ LET code == holdings[hidx]
     IN  IF fs.outcome = "raised"
         THEN /\ report' = Append(report, Line("holding_failed", code, None, ""))
              /\ hidx' = hidx + 1
              /\ sdf' = None
              /\ pc' = "holding"
         ELSE IF IsNone(fs.value)
         THEN /\ report' = Append(report, Line("unavailable", code, None, ""))
              /\ hidx' = hidx + 1
              /\ sdf' = None
              /\ pc' = "holding"
         ELSE LET v == HoldingVerdict(Get(fs.value))
              IN  /\ report' = Append(report, Line("verdict", code, v.last_close, v.comment))
                  /\ hidx' = hidx
                  /\ sdf' = fs.value
                  /\ pc' = "holding_chart"
  /\ fs' = NoFrame
  /\ UNCHANGED <<akOk, holdings, saved, liq_score, val_score, tech_score,
                 composite, fi, input, result>>

\* lines 454-462: the holding's chart is saved
RunHoldingChartSaved ==
  /\ pc = "holding_chart"
  /\ hidx' = hidx + 1
  /\ sdf' = None
  /\ pc' = "holding"
  /\ UNCHANGED <<akOk, holdings, report, saved, liq_score, val_score, tech_score,
                 composite, fs, fi, input, result>>

\* lines 454-464: the charting library raises: the handler of the holding
\* writes its failure line
RunHoldingChartRaises ==
  /\ pc = "holding_chart"
  /\ report' = Append(report, Line("holding_failed", holdings[hidx], None, ""))
  /\ hidx' = hidx + 1
  /\ sdf' = None
  /\ pc' = "holding"
  /\ UNCHANGED <<akOk, holdings, saved, liq_score, val_score, tech_score,
                 composite, fs, fi, input, result>>

\* lines 432 and 467-470: the loop is over
RunHoldingsDone ==
  /\ pc = "holding"
  /\ hidx > Len(holdings)
  /\ pc' = "save"
  /\ UNCHANGED <<akOk, holdings, runVars, fs, fi, input, result>>

\* lines 467-470: the lines are joined and the report file written
RunSave ==
  /\ pc = "save"
  /\ saved' = Append(saved, report)
  /\ pc' = "done"
  /\ UNCHANGED <<akOk, holdings, report, liq_score, val_score, tech_score,
                 composite, hidx, sdf, fs, fi, input, result>>

AnalyzeAndReport ==
  \/ RunStart \/ RunLiquidity \/ RunValuation \/ RunTechnical
  \/ RunIndexChartSaved \/ RunIndexChartRaises \/ RunComposite
  \/ RunHolding \/ RunHoldingFetched \/ RunHoldingChartSaved \/ RunHoldingChartRaises
  \/ RunHoldingsDone \/ RunSave

Init ==
  /\ akOk \in BOOLEAN
  /\ holdings \in {SubSeq(USER_HOLDINGS, 1, n) : n \in 0..MaxHoldings}
  /\ pc = "start"
  /\ RunIdle
  /\ fs = NoFrame /\ fi = NoFrame
  /\ input = None /\ result = None

Next == AnalyzeAndReport \/ FetchStockDaily \/ FetchDailyIndex

Spec == Init /\ [][Next]_vars

\* ============================================================== claims
\* The number of defined band points of a series: the positions whose
\* trailing window of BOLL_WINDOW closes is full.
BandPoints(series) ==
  IF IsNone(series) THEN 0
  ELSE IF Len(Get(series)) < BOLL_WINDOW THEN 0
  ELSE Len(Get(series)) - BOLL_WINDOW + 1

\* The k-th most recent band point of a series (k = 1 is the most recent).
Recent(series, k) ==
  bollinger_bands(Get(series), BOLL_WINDOW, BOLL_N)[Len(Get(series)) - k + 1]

\* C4: every sub-score and the composite lie in [0,100], and no scoring
\* function raises, for every combination of present and absent inputs
\* (macro fields, cross-border flow, percentiles in [0,1], index series
\* present, empty or None).
C4_ScoresInRange ==
  pc = "scored" =>
    LET r == Get(result)
    IN  /\ r.liq \in 0..100
        /\ r.val \in 0..100
        /\ r.tech \in 0..100
        /\ r.composite \in 0..100
        /\ ~r.raised

\* C4 witness: money-supply growth above its range is the only input
\* present, and the liquidity score is clamped to 100.
C4_Witness ==
  /\ pc = "scored"
  /\ input.m2 = Some(20)
  /\ IsNone(input.social_financing) /\ IsNone(input.net_inflow_5d)
  /\ IsNone(input.pe_pctile) /\ IsNone(input.series)
  /\ Get(result).liq = 100

\* C5 (as claimed): the composite is the weighted sum 0.35*liquidity +
\* 0.35*valuation + 0.30*technical truncated to an integer, and the
\* classification follows from the composite alone with inclusive lower
\* boundaries 75 (overheated) and 55 (elevated); liq=80, val=60, tech=20
\* gives 55 and "elevated".
C5_CompositeIsTruncatedWeightedSum ==
  pc = "scored" =>
    LET r == Get(result)
        exact == (35 * r.liq + 35 * r.val + 30 * r.tech) \div 100
    IN  /\ r.composite = exact
        /\ r.tier = (IF exact >= 75 THEN "overheated"
                     ELSE IF exact >= 55 THEN "elevated" ELSE "cool")
        /\ (r.liq = 80 /\ r.val = 60 /\ r.tech = 20
              => r.composite = 55 /\ r.tier = "elevated")

\* C6 (as claimed): score_technical is 20 exactly when the two most recent
\* defined band points both close above their upper band, 60 when at least
\* two band points are defined and that fails, and 50 whenever fewer than
\* two band points are defined.
C6_TechnicalScore ==
  pc = "scored" =>
    LET n == BandPoints(input.series)
        r == Get(result)
    IN  IF n < 2 THEN r.tech = 50
        ELSE IF AboveUpper(Recent(input.series, 1)) /\ AboveUpper(Recent(input.series, 2))
             THEN r.tech = 20
             ELSE r.tech = 60

\* C7 (as claimed): the band classification of a fetched holding depends
\* only on the most recent defined band point: overbought iff its close is
\* above its upper band, oversold iff below its lower band, neutral
\* otherwise, for any number of defined band points, one included.
C7_BandClassification ==
  pc = "scored" /\ ~IsNone(Get(result).verdict) =>
    LET n == BandPoints(input.series)
        comment == Get(Get(result).verdict).comment
    IN  IF n >= 1 /\ AboveUpper(Recent(input.series, 1)) THEN comment = "overbought"
        ELSE IF n >= 1 /\ BelowLower(Recent(input.series, 1)) THEN comment = "oversold"
        ELSE comment = "neutral"

\* What each valuation source supplies when asked.
QuoteSupplies(field) ==
  IF input.quote.kind = "data" /\ ~IsNone(field) /\ Get(field) # NonNumeric
  THEN Some(Get(field)) ELSE None

PctSupplies(answer) ==
  IF answer.kind = "json" /\ ~IsNone(answer.percentile)
     /\ Get(answer.percentile) # NonNumeric
  THEN Some(Get(answer.percentile) * 100) ELSE None

\* C9 (as claimed): the valuation sources fail independently: each returned
\* field is present, with the value its own source supplied, exactly when
\* that source supplied it, and absent otherwise.
C9_SourcesIndependent ==
  pc = "valued" =>
    LET r == Get(result)
    IN  /\ r.pe_ttm = QuoteSupplies(input.quote.f115)
        /\ r.pb = QuoteSupplies(input.quote.f117)
        /\ r.pe_pctile = PctSupplies(input.pe)
        /\ r.pb_pctile = PctSupplies(input.pb)

\* C2 (as claimed): fetch_stock_daily never raises to its caller: whatever
\* the environment does it returns a non-empty series of numeric closes or
\* None, and None once every attempt has failed.
C2_NeverRaises ==
  pc = "fs_done" =>
    /\ fs.outcome = "returned"
    /\ \/ IsNone(fs.value)
       \/ Len(Get(fs.value)) > 0 /\ Numeric(Get(fs.value))
    /\ ("ok" \notin {fs.events[i] : i \in 1..Len(fs.events)} => IsNone(fs.value))

Count(events, e) == Cardinality({i \in 1..Len(events) : events[i] = e})

\* C3: fetch_stock_daily(retry = N) makes at most N provider calls; every
\* call is immediately preceded by the delay of its attempt; every failed
\* attempt is followed by the retry delay before anything else happens; no
\* call follows the attempt that yields a valid series; and when it returns
\* None after all attempts failed, exactly N calls were made.
C3_RetrySchedule ==
  fs.active =>
    LET e == fs.events
    IN  /\ Count(e, "call") <= fs.retry
        /\ \A i \in 1..Len(e) :
             /\ e[i] = "call" => i > 1 /\ e[i - 1] = "pre_delay"
             /\ e[i] = "fail" => IF i < Len(e) THEN e[i + 1] = "retry_delay"
                                 ELSE pc = "fs_failed"
             /\ e[i] = "ok" => i = Len(e) /\ fs.outcome = "returned"
        /\ (fs.outcome = "returned" /\ IsNone(fs.value)
              => Count(e, "call") = fs.retry /\ Count(e, "fail") = fs.retry)

\* C3 witness: with retry = 2 the first attempt fails and the second
\* succeeds.
C3_Witness ==
  /\ pc = "fs_done"
  /\ fs.retry = 2
  /\ fs.events = <<"pre_delay", "call", "fail", "retry_delay", "pre_delay", "call", "ok">>
  /\ ~IsNone(fs.value)

\* The first candidate call whose answer was taken, or 0.
FirstTaken(calls) ==
  IF \E i \in 1..Len(calls) : calls[i].endpoint = "stock_zh_index_daily" /\ calls[i].taken
  THEN CHOOSE i \in 1..Len(calls) :
         /\ calls[i].endpoint = "stock_zh_index_daily" /\ calls[i].taken
         /\ \A j \in 1..(i - 1) : ~calls[j].taken
  ELSE 0

\* C8 (as claimed): fetch_daily_index tries the spellings of the requested
\* code in order (bare, sh-prefixed, sz-prefixed), returns the series of the
\* first whose answer is non-empty with a date and a close, asks no later
\* candidate after it, and returns None when no candidate yields such an
\* answer; so a series it returns was obtained for a spelling of the
\* requested code.
C8_OrderedFirstMatch ==
  pc = "fi_done" /\ fi.outcome = "returned" =>
    LET spellings == _clean_index_symbol(fi.code)
        first == FirstTaken(fi.calls)
    IN  /\ \A i \in 1..Len(fi.calls) :
             fi.calls[i].endpoint = "stock_zh_index_daily"
               => i <= 3 /\ fi.calls[i].symbol = spellings[i]
        /\ first > 0 => ~IsNone(fi.value) /\ Len(fi.calls) = first
        /\ first = 0 => IsNone(fi.value)
        /\ ~IsNone(fi.value) =>
             fi.calls[Len(fi.calls)].symbol \in {spellings[i] : i \in 1..3}

Kinds(lines) == [i \in 1..Len(lines) |-> lines[i].kind]

IsHoldingLine(line) == line.kind \in {"unavailable", "verdict", "holding_failed"}

\* C1 (as claimed): the holdings loop runs to the end of the list and the
\* report holds exactly one line per holding, in input order (a skipped
\* line, a failure line or a verdict line), whatever happens to the other
\* holdings.
C1_OneLinePerHolding ==
  pc = "done" =>
    LET lines == SelectSeq(report, IsHoldingLine)
    IN  /\ Len(lines) = Len(holdings)
        /\ \A i \in 1..Len(lines) : lines[i].code = holdings[i]

\* C10 (as claimed): the report consists, in every run, of the timestamp,
\* liquidity, valuation, technical, composite and classification lines, each
\* once and in this order, then one line per holding, and is persisted once,
\* after the last holding.
C10_FixedOrder ==
  pc = "done" =>
    /\ Len(report) = 6 + Len(holdings)
    /\ SubSeq(Kinds(report), 1, 6) =
         <<"timestamp", "liquidity", "valuation", "technical", "composite",
           "classification">>
    /\ \A i \in 1..Len(holdings) :
         IsHoldingLine(report[6 + i]) /\ report[6 + i].code = holdings[i]
    /\ saved = <<report>>

\* The lines of the holdings hs, in order: for each a skipped line, a
\* failure line, or a verdict line with or without a failure line after it.
RECURSIVE HoldingSection(_, _)
HoldingSection(lines, hs) ==
  IF Len(hs) = 0 THEN Len(lines) = 0
  ELSE /\ Len(lines) > 0
       /\ IsHoldingLine(lines[1])
       /\ lines[1].code = hs[1]
       /\ \/ HoldingSection(Tail(lines), Tail(hs))
          \/ /\ lines[1].kind = "verdict"
             /\ Len(lines) > 1
             /\ lines[2].kind = "holding_failed"
             /\ lines[2].code = hs[1]
             /\ HoldingSection(Tail(Tail(lines)), Tail(hs))

TechnicalSections ==
  {<<"technical">>, <<"technical", "chart_saved">>,
   <<"technical", "index_failed">>, <<"index_failed">>}

ReportShape ==
  \E tech \in TechnicalSections :
    LET head == <<"timestamp", "liquidity", "valuation">> \o tech
                \o <<"composite", "classification">>
                \o (IF Len(holdings) > 0 THEN <<"holdings_header">> ELSE <<>>)
    IN  /\ Len(report) >= Len(head)
        /\ SubSeq(Kinds(report), 1, Len(head)) = head
        /\ HoldingSection(SubSeq(report, Len(head) + 1, Len(report)), holdings)

IsPrefix(a, b) == Len(a) <= Len(b) /\ SubSeq(b, 1, Len(a)) = a

\* C10 (amended): the report is append-only and is persisted exactly once,
\* after the last holding; it is, in order: the timestamp, liquidity and
\* valuation lines; the technical line, alone or followed by the chart
\* notice or by the index-failure line, or the index-failure line alone; the
\* composite and classification lines; and, when there are holdings, the
\* section header and the lines of each holding in input order (a skipped
\* line, a failure line, or a verdict line with or without a failure line
\* after it).
C10_ReportShape ==
  /\ [](/\ pc = "done" => ReportShape /\ saved = <<report>>
        /\ pc # "done" => saved = <<>>)
  /\ [][IsPrefix(report, report') /\ IsPrefix(saved, saved')]_vars

\* C10 witness: a finished run with two holdings, the index chart saved, a
\* verdict for the first holding and the second one skipped.
C10_Witness ==
  /\ pc = "done"
  /\ Kinds(report) =
       <<"timestamp", "liquidity", "valuation", "technical", "chart_saved",
         "composite", "classification", "holdings_header", "verdict", "unavailable">>
  /\ saved = <<report>>

\* The number shown on the first line of the given kind.
Shown(kind) ==
  LET i == CHOOSE j \in 1..Len(report) : report[j].kind = kind
  IN  Get(report[i].value)

HasLine(kind) == \E j \in 1..Len(report) : report[j].kind = kind

\* C11 (as claimed): chart rendering is decoupled from scoring: whether the
\* charting collaborator succeeds or raises, the technical score shown on
\* the technical line is the one used in the composite, so the composite and
\* the classification are those of the three scores the report shows.
C11_ChartDecoupled ==
  /\ HasLine("technical") => tech_score = Some(Shown("technical"))
  /\ HasLine("technical") /\ HasLine("composite") =>
       /\ Shown("composite") =
            Composite(Shown("liquidity"), Shown("valuation"), Shown("technical"))
       /\ \E j \in 1..Len(report) :
            /\ report[j].kind = "classification"
            /\ report[j].text =
                 Classification(Composite(Shown("liquidity"), Shown("valuation"),
                                          Shown("technical")))

====
